---------------------------- MODULE Spec2Model ----------------------------
(***************************************************************************)
(* A model of src/src/vector3.rs: the Vector3 value type, its geometric    *)
(* functions and its sampling routines, as a state machine of calls into   *)
(* the library.                                                            *)
(*                                                                         *)
(* The components of a Vector3 are f64.  They are modelled by a binary     *)
(* floating-point format of the same shape as IEEE-754 binary64 (gradual   *)
(* underflow, round-to-nearest-even, overflow to infinity, NaN) with a     *)
(* significand of Prec bits instead of 53.  A finite value is the integer  *)
(* number of units of 2^-Frac it holds (the unit is the smallest           *)
(* subnormal), so One = 2^Frac stands for 1.0.  The two infinities and NaN *)
(* are integers outside the finite range.  The sign of a zero is not       *)
(* modelled: -0.0 == 0.0 in every comparison of the source, and the only   *)
(* divisor the modelled code ever uses is a length, which is never -0.0.   *)
(***************************************************************************)
EXTENDS Integers, Sequences, FiniteSets, TLC

\* Significand width of the format in bits (53 in f64).
Prec == 3
\* The smallest subnormal is 2^-Frac (1074 in f64).
Frac == 4

\* 1.0
One == 2^Frac
\* Exponent of the smallest normal binade, and of the largest (emax = 1 - emin
\* as in IEEE-754).
Emin == Prec - 1 - Frac
Emax == 1 - Emin
\* f64::MAX, in units
MaxFinite == (2^Prec - 1) * 2^(Emax - Prec + 1 + Frac)
PosInf == MaxFinite + 1
NegInf == -PosInf
NaN == PosInf + 1

RECURSIVE Shift(_)
\* The exponent of the spacing of the floats around the magnitude q.
Shift(q) == IF q < 2^Prec THEN 0 ELSE 1 + Shift(q \div 2)

\* A magnitude is representable iff it has at most Prec significant bits.
IsRep(k) == k % (2^Shift(k)) = 0
Finite == {k \in -MaxFinite..MaxFinite : IF k < 0 THEN IsRep(-k) ELSE IsRep(k)}
F64 == Finite \cup {PosInf, NegInf, NaN}

IsFinite(a) == a # NaN /\ a # PosInf /\ a # NegInf
Sign(a) == IF a < 0 THEN -1 ELSE 1
Mag(a) == IF a < 0 THEN -a ELSE a

\* The integer nearest to num/den, ties to even (num >= 0, den > 0).
RoundInt(num, den) ==
    LET q == num \div den
        r == num % den
    IN  IF 2 * r < den THEN q
        ELSE IF 2 * r > den THEN q + 1
        ELSE IF q % 2 = 0 THEN q ELSE q + 1

\* The float nearest to the exact magnitude num/den units (round to nearest,
\* ties to even; a result beyond MaxFinite overflows to infinity).
RoundMag(num, den) ==
    LET j == Shift(num \div den)
        v == RoundInt(num, den * 2^j) * 2^j
    IN  IF v > MaxFinite THEN PosInf ELSE v

Round(num, den) ==
    IF num < 0 THEN -RoundMag(-num, den) ELSE RoundMag(num, den)

\* f64 negation
FNeg(a) == IF a = NaN THEN NaN ELSE -a

\* f64 addition
AddOf(a, b) ==
    IF a = NaN \/ b = NaN THEN NaN
    ELSE IF ~IsFinite(a) THEN (IF ~IsFinite(b) /\ b # a THEN NaN ELSE a)
    ELSE IF ~IsFinite(b) THEN b
    ELSE Round(a + b, 1)

\* The sums of all pairs of floats, computed once.
AddTable == [a \in F64 |-> [b \in F64 |-> AddOf(a, b)]]
FAdd(a, b) == AddTable[a][b]

\* f64 subtraction
FSub(a, b) == FAdd(a, FNeg(b))

\* f64 multiplication
MulOf(a, b) ==
    IF a = NaN \/ b = NaN THEN NaN
    ELSE IF ~IsFinite(a) \/ ~IsFinite(b)
         THEN (IF a = 0 \/ b = 0 THEN NaN ELSE Sign(a) * Sign(b) * PosInf)
    ELSE Round(a * b, One)

\* The products of all pairs of floats, computed once.
MulTable == [a \in F64 |-> [b \in F64 |-> MulOf(a, b)]]
FMul(a, b) == MulTable[a][b]

\* f64 division (the divisor's zero is +0.0)
DivOf(a, b) ==
    IF a = NaN \/ b = NaN THEN NaN
    ELSE IF ~IsFinite(a) THEN (IF ~IsFinite(b) THEN NaN
                               ELSE IF b < 0 THEN -a ELSE a)
    ELSE IF ~IsFinite(b) THEN 0
    ELSE IF b = 0 THEN (IF a = 0 THEN NaN ELSE Sign(a) * PosInf)
    ELSE Sign(b) * Round(a * One, Mag(b))

\* The quotients of all pairs of floats, computed once.
DivTable == [a \in F64 |-> [b \in F64 |-> DivOf(a, b)]]
FDiv(a, b) == DivTable[a][b]

\* The largest integer s with s * s <= n.
ISqrt(n) == CHOOSE s \in 0..n : s * s <= n /\ (s + 1) * (s + 1) > n

\* f64::sqrt, correctly rounded
SqrtOf(a) ==
    IF a = NaN \/ a < 0 THEN NaN
    ELSE IF a = PosInf THEN PosInf
    ELSE LET n == a * One
             s == ISqrt(n)
             j == Shift(s)
             lo == (s \div 2^j) * 2^j
             hi == lo + 2^j
             \* twice the midpoint of lo and hi
             m2 == lo + hi
         IN  IF 4 * n < m2 * m2 THEN lo
             ELSE IF 4 * n > m2 * m2 THEN hi
             ELSE IF (lo \div 2^j) % 2 = 0 THEN lo ELSE hi

\* The square roots of all floats, computed once.
SqrtTable == [a \in F64 |-> SqrtOf(a)]
FSqrt(a) == SqrtTable[a]

\* f64::abs
FAbs(a) == IF a = NaN THEN NaN ELSE Mag(a)

\* f64::min: the other operand when one is NaN
FMin(a, b) ==
    IF a = NaN THEN b
    ELSE IF b = NaN THEN a
    ELSE IF a < b THEN a ELSE b

\* The comparisons of f64: every comparison with NaN is false.
Lt(a, b) == a # NaN /\ b # NaN /\ a < b
Gt(a, b) == Lt(b, a)
Ge(a, b) == a # NaN /\ b # NaN /\ a >= b
Eq(a, b) == a # NaN /\ b # NaN /\ a = b

(***************************************************************************)
(* Vector3 and its operators                                               *)
(***************************************************************************)
Two == 2 * One

\* Vector3::from
Vec(x, y, z) == [x |-> x, y |-> y, z |-> z]
\* Vector3::new
ZeroVec == Vec(0, 0, 0)

\* impl ops::Neg for Vector3
neg(v) == Vec(FNeg(v.x), FNeg(v.y), FNeg(v.z))
\* impl ops::Add for Vector3
add(a, b) == Vec(FAdd(a.x, b.x), FAdd(a.y, b.y), FAdd(a.z, b.z))
\* impl ops::Sub for Vector3
sub(a, b) == Vec(FSub(a.x, b.x), FSub(a.y, b.y), FSub(a.z, b.z))
\* impl ops::Mul<Vector3> for f64
scale(k, v) == Vec(FMul(k, v.x), FMul(k, v.y), FMul(k, v.z))
\* impl ops::Div<f64> for Vector3: multiplication by the reciprocal
div(v, k) == scale(FDiv(One, k), v)

\* Vector3::length_squared
length_squared(v) ==
    FAdd(FAdd(FMul(v.x, v.x), FMul(v.y, v.y)), FMul(v.z, v.z))
\* Vector3::length
length(v) == FSqrt(length_squared(v))
\* Vector3::unit
unit(v) == div(v, length(v))

dot_product(a, b) ==
    FAdd(FAdd(FMul(a.x, b.x), FMul(a.y, b.y)), FMul(a.z, b.z))

\* cross_product with the operands of its y component in the wrong order
cross_product_y_slip(a, b) ==
    Vec(FSub(FMul(a.y, b.z), FMul(a.z, b.y)),
        FSub(FMul(a.x, b.z), FMul(a.z, b.x)),
        FSub(FMul(a.x, b.y), FMul(a.y, b.x)))

cross_product(a, b) ==
    Vec(FSub(FMul(a.y, b.z), FMul(a.z, b.y)),
        FSub(FMul(a.z, b.x), FMul(a.x, b.z)),
        FSub(FMul(a.x, b.y), FMul(a.y, b.x)))

\* reflect without the factor 2.0
reflect_once(v, n) == sub(v, scale(dot_product(v, n), n))

reflect(v, n) == sub(v, scale(FMul(Two, dot_product(v, n)), n))

\* refract: cos_theta
cos_theta(uv, n) == FMin(dot_product(neg(uv), n), One)
\* refract: r_out_perp
r_out_perp(uv, n, etai_over_etat) ==
    scale(etai_over_etat, add(uv, scale(cos_theta(uv, n), n)))
\* the radicand without its abs()
radicand_signed(uv, n, etai_over_etat) ==
    FSub(One, length_squared(r_out_perp(uv, n, etai_over_etat)))
\* refract: the value whose square root is taken
radicand(uv, n, etai_over_etat) ==
    FAbs(FSub(One, length_squared(r_out_perp(uv, n, etai_over_etat))))
\* refract: r_out_parallel
r_out_parallel(uv, n, etai_over_etat) ==
    scale(FNeg(FSqrt(radicand(uv, n, etai_over_etat))), n)
refract(uv, n, etai_over_etat) ==
    add(r_out_perp(uv, n, etai_over_etat), r_out_parallel(uv, n, etai_over_etat))

(***************************************************************************)
(* The random source (crate::random, not part of this file): a uniform     *)
(* double in [0,1), and a uniform double in a half-open range.  Any float  *)
(* of the range can be delivered.                                          *)
(***************************************************************************)
random_f64 == {r \in Finite : 0 <= r /\ r < One}
random_f64_in_range(lo, hi) == {r \in Finite : lo <= r /\ r < hi}

\* the draws filling y before x
from_draws_swapped(d) == Vec(d[2], d[1], d[3])
\* Vector3::random and Vector3::random_in_range: the draws fill x, y, z in order.
from_draws(d) == Vec(d[1], d[2], d[3])
\* random_in_unit_disk's candidate: two draws and a zero
disk_candidate(d) == Vec(d[1], d[2], 0)

\* the loops' test with <= for <
AcceptsOnSphere(p) == Ge(One, length_squared(p))
AcceptsOnCircle(p) == Ge(One, length_squared(p))
\* The test of random_in_unit_sphere's loop: the candidate is returned.
SphereAccepts(p) == Lt(length_squared(p), One)
\* The test of random_in_unit_disk's loop
DiskAccepts(p) == Lt(length_squared(p), One)

\* the choice with >= for >
hemisphere_pick_ge(on_unit_sphere, normal) ==
    IF Ge(dot_product(on_unit_sphere, normal), 0)
    THEN on_unit_sphere ELSE neg(on_unit_sphere)
\* random_on_hemisphere's choice between the unit vector and its negation
hemisphere_pick(on_unit_sphere, normal) ==
    IF Gt(dot_product(on_unit_sphere, normal), 0)
    THEN on_unit_sphere ELSE neg(on_unit_sphere)

(***************************************************************************)
(* Bounds of the model                                                     *)
(***************************************************************************)
\* Loop iterations and draws are counted up to MaxIters; beyond it the
\* counters stay at "more than MaxIters".
MaxIters == 2
MaxDraws == 3 * MaxIters

\* Components of the arguments given to the geometric functions.
InVals == {-One, 0, 1, One \div 2, One, One + One \div 4, MaxFinite}
InVecs == {Vec(x, y, z) : x \in InVals, y \in InVals, z \in InVals}
\* Ratios of refractive indices given to refract.
EtaVals == {One \div 2, One, One + One \div 2}
\* Normals given to random_on_hemisphere.
Normals == {Vec(0, One, 0), Vec(-One, One \div 2, One)}
\* Ranges given to Vector3::random_in_range.
Ranges == {<<-One, One>>, <<0, One \div 2>>}

(***************************************************************************)
(* The state: the call in progress and what it has done so far.            *)
(***************************************************************************)
VARIABLES
    pc,         \* "idle", "draw" (about to call the random source),
                \* "test" (a loop's candidate is complete), "done"
    op,         \* the function called
    args,       \* its arguments
    drawn,      \* what the random source delivered for the vector being built
    iters,      \* loop iterations begun in this call
    ndraws,     \* calls of the random source made in this call
    sample,     \* random_unit_vector: what random_in_unit_sphere returned
    on_unit_sphere, \* random_on_hemisphere: what random_unit_vector returned
    result      \* the value returned

vars == <<pc, op, args, drawn, iters, ndraws, sample, on_unit_sphere, result>>

NoArgs == [a |-> ZeroVec, b |-> ZeroVec, k |-> 0, lo |-> 0, hi |-> 0]
SphereOps == {"random_in_unit_sphere", "random_unit_vector", "random_on_hemisphere"}

Init ==
    /\ pc = "idle"
    /\ op = "none"
    /\ args = NoArgs
    /\ drawn = <<>>
    /\ iters = 0
    /\ ndraws = 0
    /\ sample = ZeroVec
    /\ on_unit_sphere = ZeroVec
    /\ result = ZeroVec

Bump(n, max) == IF n <= max THEN n + 1 ELSE n

\* A call of a function that draws: nothing is drawn yet.
Begin(o, as) ==
    /\ pc = "idle"
    /\ pc' = "draw"
    /\ op' = o
    /\ args' = as
    /\ drawn' = <<>>
    /\ iters' = 1
    /\ ndraws' = 0
    /\ sample' = ZeroVec
    /\ on_unit_sphere' = ZeroVec
    /\ result' = ZeroVec

\* A call of a function that draws nothing, returning r.
Apply(o, as, r) ==
    /\ pc = "idle"
    /\ pc' = "done"
    /\ op' = o
    /\ args' = as
    /\ result' = r
    /\ drawn' = <<>>
    /\ iters' = 0
    /\ ndraws' = 0
    /\ sample' = ZeroVec
    /\ on_unit_sphere' = ZeroVec

CallRandom == Begin("random", NoArgs)
CallRandomInRange ==
    /\ pc = "idle"
    /\ \E rg \in Ranges : Begin("random_in_range", [NoArgs EXCEPT !.lo = rg[1], !.hi = rg[2]])
CallRandomInUnitSphere == Begin("random_in_unit_sphere", NoArgs)
CallRandomUnitVector == Begin("random_unit_vector", NoArgs)
CallRandomOnHemisphere ==
    /\ pc = "idle"
    /\ \E normal \in Normals : Begin("random_on_hemisphere", [NoArgs EXCEPT !.a = normal])
CallRandomInUnitDisk == Begin("random_in_unit_disk", NoArgs)

CrossProduct ==
    /\ pc = "idle"
    /\ \E a \in InVecs, b \in InVecs :
        Apply("cross_product", [NoArgs EXCEPT !.a = a, !.b = b], cross_product(a, b))
Reflect ==
    /\ pc = "idle"
    /\ \E v \in InVecs, n \in InVecs :
        Apply("reflect", [NoArgs EXCEPT !.a = v, !.b = n], reflect(v, n))
Refract ==
    /\ pc = "idle"
    /\ \E uv \in InVecs, n \in InVecs, e \in EtaVals :
        Apply("refract", [NoArgs EXCEPT !.a = uv, !.b = n, !.k = e], refract(uv, n, e))

\* One call of the random source, delivering r, for a vector of `need` drawn
\* components; `next` is where the call goes once the last one is drawn.
DrawStep(r, need, next) ==
    /\ pc = "draw"
    /\ drawn' = Append(drawn, r)
    /\ ndraws' = Bump(ndraws, MaxDraws)
    /\ pc' = IF Len(drawn) + 1 = need THEN next ELSE "draw"
    /\ UNCHANGED <<op, args, iters, sample, on_unit_sphere>>

\* Vector3::random
RandomDraw ==
    /\ pc = "draw"
    /\ op = "random"
    /\ \E r \in random_f64 :
        /\ DrawStep(r, 3, "done")
        /\ result' = IF Len(drawn) = 2 THEN from_draws(Append(drawn, r)) ELSE result

\* Vector3::random_in_range, called by the user
RandomInRangeDraw ==
    /\ pc = "draw"
    /\ op = "random_in_range"
    /\ \E r \in random_f64_in_range(args.lo, args.hi) :
        /\ DrawStep(r, 3, "done")
        /\ result' = IF Len(drawn) = 2 THEN from_draws(Append(drawn, r)) ELSE result

\* random_in_unit_sphere: Vector3::random_in_range(-1.0..1.0)
SphereDraw ==
    /\ pc = "draw"
    /\ op \in SphereOps
    /\ \E r \in random_f64_in_range(-One, One) : DrawStep(r, 3, "test")
    /\ UNCHANGED result

\* random_in_unit_disk: the two calls of random_f64_in_range(-1.0..1.0)
DiskDraw ==
    /\ pc = "draw"
    /\ op = "random_in_unit_disk"
    /\ \E r \in random_f64_in_range(-One, One) : DrawStep(r, 2, "test")
    /\ UNCHANGED result

\* a loop that gives up after MaxIters iterations
AgainCapped ==
    IF iters >= MaxIters
    THEN /\ pc' = "done"
         /\ result' = ZeroVec
         /\ UNCHANGED <<op, args, drawn, iters, ndraws, sample, on_unit_sphere>>
    ELSE /\ pc' = "draw"
         /\ drawn' = <<>>
         /\ iters' = Bump(iters, MaxIters)
         /\ UNCHANGED <<op, args, ndraws, sample, on_unit_sphere, result>>

\* The loop goes round.
Again ==
    /\ pc' = "draw"
    /\ drawn' = <<>>
    /\ iters' = Bump(iters, MaxIters)
    /\ UNCHANGED <<op, args, ndraws, sample, on_unit_sphere, result>>

\* random_in_unit_sphere's test of its candidate, and what its callers do
\* with the vector it returns.
SphereTest ==
    /\ pc = "test"
    /\ op \in SphereOps
    /\ LET p == from_draws(drawn) IN
       IF SphereAccepts(p)
       THEN /\ pc' = "done"
            /\ sample' = p
            /\ on_unit_sphere' = IF op = "random_on_hemisphere" THEN unit(p) ELSE on_unit_sphere
            /\ result' = CASE op = "random_in_unit_sphere" -> p
                           [] op = "random_unit_vector" -> unit(p)
                           [] op = "random_on_hemisphere" -> hemisphere_pick(unit(p), args.a)
            /\ UNCHANGED <<op, args, drawn, iters, ndraws>>
       ELSE Again

\* random_in_unit_disk's test of its candidate
DiskTest ==
    /\ pc = "test"
    /\ op = "random_in_unit_disk"
    /\ LET p == disk_candidate(drawn) IN
       IF DiskAccepts(p)
       THEN /\ pc' = "done"
            /\ result' = p
            /\ UNCHANGED <<op, args, drawn, iters, ndraws, sample, on_unit_sphere>>
       ELSE Again

\* The caller takes the result; the library is ready for the next call.
Return ==
    /\ pc = "done"
    /\ pc' = "idle"
    /\ op' = "none"
    /\ args' = NoArgs
    /\ drawn' = <<>>
    /\ iters' = 0
    /\ ndraws' = 0
    /\ sample' = ZeroVec
    /\ on_unit_sphere' = ZeroVec
    /\ result' = ZeroVec

Next ==
    \/ CallRandom
    \/ CallRandomInRange
    \/ CallRandomInUnitSphere
    \/ CallRandomUnitVector
    \/ CallRandomOnHemisphere
    \/ CallRandomInUnitDisk
    \/ CrossProduct
    \/ Reflect
    \/ Refract
    \/ RandomDraw
    \/ RandomInRangeDraw
    \/ SphereDraw
    \/ DiskDraw
    \/ SphereTest
    \/ DiskTest
    \/ Return

Spec == Init /\ [][Next]_vars

\* The two rejection loops alone, with a scheduler that keeps a call in
\* progress running (the code is sequential: a step that can be taken is
\* taken).
NextLoops ==
    \/ CallRandomInUnitSphere
    \/ CallRandomInUnitDisk
    \/ SphereDraw
    \/ DiskDraw
    \/ SphereTest
    \/ DiskTest
    \/ Return

SpecLoops == Init /\ [][NextLoops]_vars /\ WF_vars(NextLoops)

(***************************************************************************)
(* The claims                                                              *)
(***************************************************************************)
Returned(o) == pc = "done" /\ op = o
FiniteVec(v) == IsFinite(v.x) /\ IsFinite(v.y) /\ IsFinite(v.z)
\* a == b of f64, component by component
VecEq(a, b) == Eq(a.x, b.x) /\ Eq(a.y, b.y) /\ Eq(a.z, b.z)
InUnitRange(c) == Ge(c, -One) /\ Lt(c, One)

\* C1: whatever the random source delivers, a vector returned by
\* random_in_unit_sphere (to the user, or to random_unit_vector inside
\* random_unit_vector and random_on_hemisphere) has x*x + y*y + z*z < 1.0,
\* evaluated as the code evaluates it, and each component in [-1, 1).
C1_InsideUnitSphere ==
    (pc = "done" /\ op \in SphereOps) =>
        /\ Lt(FAdd(FAdd(FMul(sample.x, sample.x), FMul(sample.y, sample.y)),
                   FMul(sample.z, sample.z)), One)
        /\ InUnitRange(sample.x) /\ InUnitRange(sample.y) /\ InUnitRange(sample.z)
        /\ (op = "random_in_unit_sphere" => result = sample)

\* C1 witness: random_in_unit_sphere returned a non-zero vector after having
\* rejected a candidate.
C1_Witness ==
    /\ Returned("random_in_unit_sphere")
    /\ iters = 2
    /\ result.x # 0 /\ result.y # 0 /\ result.z # 0

\* C2: whatever the normal and whatever the random source delivers, the
\* vector random_on_hemisphere(normal) returns has
\* dot_product(result, normal) >= 0.
C2_HemisphereSide ==
    Returned("random_on_hemisphere") => Ge(dot_product(result, args.a), 0)

\* C3 as claimed: for every incident vector v and every unit-length normal n,
\* reflect(v, n) is v - 2*dot_product(v,n)*n, so that
\* dot_product(reflect(v,n), n) = -dot_product(v,n); and
\* reflect((1,-1,0), (0,1,0)) = (1,1,0).
ExactUnit(n) ==
    FiniteVec(n) /\ n.x * n.x + n.y * n.y + n.z * n.z = One * One
\* v - 2 (v.n) n in the reals, component c, in units of 1/One^3
ReflectExact(v, n, c) ==
    v[c] * One * One - 2 * (v.x * n.x + v.y * n.y + v.z * n.z) * n[c]
IsReflection(r, v, n) ==
    /\ FiniteVec(r)
    /\ \A c \in {"x", "y", "z"} : r[c] * One * One = ReflectExact(v, n, c)
    /\ Eq(dot_product(r, n), FNeg(dot_product(v, n)))
C3_Original ==
    (Returned("reflect") /\ FiniteVec(args.a) /\ ExactUnit(args.b)) =>
        IsReflection(result, args.a, args.b)

\* C3 as amended: the same, for the incident vectors v for which
\* 2*dot_product(v,n) does not overflow.
C3_Reflect ==
    (/\ Returned("reflect") /\ FiniteVec(args.a) /\ ExactUnit(args.b)
     /\ IsFinite(FMul(Two, dot_product(args.a, args.b)))) =>
        /\ IsReflection(result, args.a, args.b)
        /\ (args.a = Vec(One, -One, 0) /\ args.b = Vec(0, One, 0)
                => result = Vec(One, One, 0))

\* C3 witness: the ray (1,-1,0) has been reflected off the normal (0,1,0).
C3_Witness ==
    /\ Returned("reflect")
    /\ args.a = Vec(One, -One, 0) /\ args.b = Vec(0, One, 0)
    /\ result = Vec(One, One, 0)

ExactMul(a, b) ==
    IsFinite(a) /\ IsFinite(b) /\ IsFinite(FMul(a, b)) /\ FMul(a, b) * One = a * b
ExactAdd(a, b) ==
    IsFinite(a) /\ IsFinite(b) /\ IsFinite(FAdd(a, b)) /\ FAdd(a, b) = a + b
\* every operation of cross_product(a, b) and of dot_product(a, c) is exact
ExactCross(a, b) ==
    /\ \A i \in {"x", "y", "z"}, j \in {"x", "y", "z"} : i # j => ExactMul(a[i], b[j])
    /\ ExactAdd(FMul(a.y, b.z), FNeg(FMul(a.z, b.y)))
    /\ ExactAdd(FMul(a.z, b.x), FNeg(FMul(a.x, b.z)))
    /\ ExactAdd(FMul(a.x, b.y), FNeg(FMul(a.y, b.x)))
ExactDot(a, c) ==
    /\ \A i \in {"x", "y", "z"} : ExactMul(a[i], c[i])
    /\ ExactAdd(FMul(a.x, c.x), FMul(a.y, c.y))
    /\ ExactAdd(FAdd(FMul(a.x, c.x), FMul(a.y, c.y)), FMul(a.z, c.z))

Candidate == IF op = "random_in_unit_disk" THEN disk_candidate(drawn) ELSE from_draws(drawn)
Testing == pc = "test" /\ op \in {"random_in_unit_sphere", "random_in_unit_disk"}
Acceptable == Lt(length_squared(Candidate), One)

\* C5: the loops of random_in_unit_sphere and random_in_unit_disk have no
\* iteration cap. A candidate of squared length < 1.0 is returned at once;
\* any other candidate, however many came before it, sends the loop round
\* again in the same call, with no error outcome. So the call returns once
\* the random source delivers an acceptable candidate, and only then.
C5_NoIterationCap ==
    /\ [][Testing =>
            IF Acceptable
            THEN pc' = "done" /\ op' = op /\ result' = Candidate
            ELSE pc' = "draw" /\ op' = op /\ drawn' = <<>>]_vars
    /\ [][(pc # "done" /\ pc' = "done") => (Testing /\ Acceptable)]_vars
    /\ ((Testing /\ Acceptable) ~> pc = "done")

\* C5 witness: a call returns after more iterations than the model counts.
C5_Witness ==
    /\ pc = "done"
    /\ op \in {"random_in_unit_sphere", "random_in_unit_disk"}
    /\ iters > MaxIters

\* C6: whatever the random source delivers, a vector returned by
\* random_in_unit_disk has z = 0, x and y in [-1, 1) and x*x + y*y < 1.0.
C6_InsideUnitDisk ==
    Returned("random_in_unit_disk") =>
        /\ result.z = 0
        /\ InUnitRange(result.x) /\ InUnitRange(result.y)
        /\ Lt(FAdd(FMul(result.x, result.x), FMul(result.y, result.y)), One)

\* C6 witness: random_in_unit_disk returned a vector off both axes after
\* having rejected a candidate.
C6_Witness ==
    /\ Returned("random_in_unit_disk")
    /\ iters = 2
    /\ result.x # 0 /\ result.y # 0

\* C7: the random source is called once per randomized component, in x, y, z
\* order: Vector3::random and Vector3::random_in_range return after 3 draws;
\* a call of random_in_unit_sphere in its k-th iteration has made 3*k draws
\* when it tests its candidate, a call of random_in_unit_disk 2*k; and the
\* vector returned is made of the draws of the accepted iteration alone.
Counted == iters <= MaxIters
C7_DrawsPerComponent ==
    /\ (pc = "done" /\ op \in {"random", "random_in_range"}) =>
            ndraws = 3 /\ Len(drawn) = 3
            /\ result = Vec(drawn[1], drawn[2], drawn[3])
    /\ (pc \in {"test", "done"} /\ op \in SphereOps) =>
            /\ Len(drawn) = 3
            /\ Counted => ndraws = 3 * iters
    /\ (pc = "done" /\ op \in SphereOps) =>
            sample = Vec(drawn[1], drawn[2], drawn[3])
    /\ (pc \in {"test", "done"} /\ op = "random_in_unit_disk") =>
            /\ Len(drawn) = 2
            /\ Counted => ndraws = 2 * iters
    /\ Returned("random_in_unit_disk") => result = Vec(drawn[1], drawn[2], 0)
    /\ (pc = "draw" /\ Counted /\ op \in SphereOps) =>
            ndraws = 3 * (iters - 1) + Len(drawn)
    /\ (pc = "draw" /\ Counted /\ op = "random_in_unit_disk") =>
            ndraws = 2 * (iters - 1) + Len(drawn)

\* C7 witness: random_in_unit_sphere returned from its second iteration a
\* vector whose components are three different draws.
C7_Witness ==
    /\ Returned("random_in_unit_sphere")
    /\ iters = 2 /\ ndraws = 6
    /\ drawn[1] # drawn[2] /\ drawn[2] # drawn[3] /\ drawn[1] # drawn[3]

\* C8 as claimed: random_on_hemisphere(normal) negates the drawn unit vector
\* if its dot product with normal is negative and otherwise returns it
\* unchanged, so a drawn vector whose dot product with normal is exactly 0 is
\* returned unchanged. (Stated for a drawn vector with finite components.)
C8_Original ==
    (Returned("random_on_hemisphere") /\ FiniteVec(on_unit_sphere)) =>
        result = IF Lt(dot_product(on_unit_sphere, args.a), 0)
                 THEN neg(on_unit_sphere) ELSE on_unit_sphere

\* C8 as amended: random_on_hemisphere(normal) returns the drawn unit vector
\* unchanged if its dot product with normal is greater than 0, and otherwise
\* its negation; a drawn vector whose dot product with normal is exactly 0 is
\* negated.
C8_HemisphereFlip ==
    Returned("random_on_hemisphere") =>
        /\ on_unit_sphere = unit(sample)
        /\ Gt(dot_product(on_unit_sphere, args.a), 0) => result = on_unit_sphere
        /\ ~Gt(dot_product(on_unit_sphere, args.a), 0) => result = neg(on_unit_sphere)
        /\ Eq(dot_product(on_unit_sphere, args.a), 0) => result = neg(on_unit_sphere)

\* C8 witness: a unit vector at right angles to the normal was drawn and its
\* negation, another vector, returned.
C8_Witness ==
    /\ Returned("random_on_hemisphere")
    /\ FiniteVec(on_unit_sphere)
    /\ Eq(dot_product(on_unit_sphere, args.a), 0)
    /\ result # on_unit_sphere

\* C9: random_unit_vector never violates the precondition of unit: the sample
\* it normalizes has length > 0, and the vector it returns has no NaN or
\* infinite component.
C9_UnitPrecondition ==
    (pc = "done" /\ op \in {"random_unit_vector", "random_on_hemisphere"}) =>
        /\ Gt(length(sample), 0)
        /\ FiniteVec(unit(sample))

\* C10: for all finite uv, n and eta_ratio, total internal reflection
\* included, refract returns r_perp + r_par with
\* r_perp = eta_ratio * (uv + min(dot_product(-uv, n), 1.0) * n) and
\* r_par = -sqrt(|1 - |r_perp|^2|) * n, and the value passed to the square
\* root is never negative.
C10_Refract ==
    Returned("refract") =>
        LET uv == args.a
            n == args.b
            perp == scale(args.k, add(uv, scale(FMin(dot_product(neg(uv), n), One), n)))
            rad == FAbs(FSub(One, length_squared(perp)))
            par == scale(FNeg(FSqrt(rad)), n)
        IN  /\ ~Lt(radicand(uv, n, args.k), 0)
            /\ radicand(uv, n, args.k) = rad
            /\ result = add(perp, par)
            /\ (FiniteVec(perp) /\ IsFinite(rad)) => FSqrt(rad) # NaN

\* C10 witness: refract returned a finite vector where total internal
\* reflection applies (1 - |r_perp|^2 < 0).
C10_Witness ==
    /\ Returned("refract")
    /\ Lt(FSub(One, length_squared(r_out_perp(args.a, args.b, args.k))), 0)
    /\ FiniteVec(result)
    /\ result.x # 0 /\ result.y # 0
=============================================================================
